---------------------------- MODULE Spec2Model ----------------------------
(***************************************************************************)
(* Recipe generator (app2.py): ingredient parsing, quantity estimation and *)
(* formatting, title/step synthesis, the Streamlit interaction handler and *)
(* the PDF pagination loop.                                                *)
(*                                                                         *)
(* Text is modelled by TLA+ strings; Len, \o and SubSeq act on them        *)
(* character-wise.  Quantities are kept as exact integers, in quarters of  *)
(* the unit; page positions in tenths of a point.                          *)
(***************************************************************************)
EXTENDS Integers, Sequences, FiniteSets, TLC

(***************************************************************************)
(* Bounds of the model.                                                    *)
(***************************************************************************)
MaxRawLen == 4
MaxTextLen == 4
MaxLines == 50        \* most lines of a recipe text given to the PDF export
MaxTypedLen == 3      \* longest text typed into the text area
MaxValueQ == 120      \* largest value given to format_quantity, in quarters

VARIABLES
    \* --- IngredientParser called on its own ---
    ppc,        \* "call" before the parser ran, "done" after it returned
    pmode,      \* which parser entry point is used: "typed" or "service"
    praw,       \* the raw text handed to the parser
    pout,       \* the sequence of ingredient names it returned
    \* --- estimate_quantity / format_quantity called on their own ---
    qpc,        \* "call" / "done"
    qcall,      \* "estimate" (estimate_quantity) or "format" (format_quantity)
    q_ingredient, \* argument of estimate_quantity
    q_servings,   \* argument of estimate_quantity
    q_value,    \* the value format_quantity receives
    q_unit,     \* the unit format_quantity receives
    q_out,      \* the display string returned
    \* --- generate_steps / generate_recipe_name called on their own ---
    tpc,        \* "call" / "done"
    tcall,      \* "steps" (generate_steps) or "name" (generate_recipe_name)
    t_ingredients, t_cuisine, t_meal_type, t_cooking_time, t_dish_name,
    t_steps,    \* the list `steps` of generate_steps before it is joined
    t_out,      \* the string returned
    \* --- one Streamlit session: the script runs once per interaction ---
    upc,            \* "idle", "handler" (line 298) or "display" (line 332)
    GOOGLE_API_KEY, \* TRUE iff the credential is configured
    input_mode, cuisine, meal_type, servings, cooking_time,  \* sidebar
    ingredients_text,   \* content of the text area
    uploaded_file,      \* TRUE iff an image was chosen
    clicked,            \* TRUE iff the Generate button was pressed
    svc,                \* what the vision service does if it is called
    analysis,           \* what analyze_image_and_extract_recipe_info returned
    dish_name,          \* dish name handed to generate_recipe
    ingredients_list,   \* ingredient sequence handed to generate_recipe
    engine_called,      \* TRUE iff generate_recipe ran in this script run
    recipe_title, recipe_markdown,
    pdf_created,        \* TRUE iff create_pdf_from_recipe ran in this run
    file_name,          \* file name offered for download
    message,            \* warning / caption shown by this run
    \* --- create_pdf_from_recipe, one step per textLine call ---
    fpc,        \* "loop" (line 249), "chunks" (line 259) or "done"
    f_count,    \* input lines taken from `lines` so far
    f_line,     \* the long line being wrapped, after the markdown cleanup
    f_off,      \* characters of f_line drawn so far
    f_drawn,    \* text of the latest textLine call
    f_y,        \* textobject.getY(), in tenths of a point
    f_on_page,  \* lines drawn into the current text object
    f_pages,    \* number of c.showPage() calls so far
    f_shown     \* lines on the page of the latest showPage, -1 before the first

parserVars == <<ppc, pmode, praw, pout>>
qtyVars == <<qpc, qcall, q_ingredient, q_servings, q_value, q_unit, q_out>>
textVars == <<tpc, tcall, t_ingredients, t_cuisine, t_meal_type,
              t_cooking_time, t_dish_name, t_steps, t_out>>

uiVars == <<upc, GOOGLE_API_KEY, input_mode, cuisine, meal_type, servings,
            cooking_time, ingredients_text, uploaded_file, clicked, svc,
            analysis, dish_name, ingredients_list, engine_called,
            recipe_title, recipe_markdown, pdf_created, file_name, message>>

pdfVars == <<fpc, f_count, f_line, f_off, f_drawn, f_y, f_on_page, f_pages,
             f_shown>>

vars == <<parserVars, qtyVars, textVars, uiVars, pdfVars>>

\* a component that takes no part in the specification at hand
ParserOff == ppc = "off" /\ pmode = "" /\ praw = "" /\ pout = <<>>
QtyOff ==
    /\ qpc = "off" /\ qcall = "" /\ q_ingredient = "" /\ q_servings = 0
    /\ q_value = [q |-> 0, int |-> TRUE] /\ q_unit = "" /\ q_out = ""
TextOff ==
    /\ tpc = "off" /\ tcall = "" /\ t_ingredients = <<>> /\ t_cuisine = ""
    /\ t_meal_type = "" /\ t_cooking_time = 0 /\ t_dish_name = ""
    /\ t_steps = <<>> /\ t_out = ""

\* Python's None where a string is expected: both are falsy and the values
\* concerned are only ever tested for truth
None == ""
NoService == [kind |-> "none", text |-> "", message |-> ""]
NoAnalysis ==
    [dish_name |-> "", ingredients |-> <<>>, called |-> FALSE, raised |-> FALSE]
NoMarkdown ==
    [title |-> "", cuisine |-> "", meal_type |-> "", cooking_time |-> 0,
     ingredients_block |-> "", steps_block |-> ""]

UiOff ==
    /\ upc = "off" /\ GOOGLE_API_KEY = FALSE /\ input_mode = "" /\ cuisine = ""
    /\ meal_type = "" /\ servings = 0 /\ cooking_time = 0
    /\ ingredients_text = "" /\ uploaded_file = FALSE /\ clicked = FALSE
    /\ svc = NoService /\ analysis = NoAnalysis /\ dish_name = None
    /\ ingredients_list = <<>> /\ engine_called = FALSE /\ recipe_title = None
    /\ recipe_markdown = NoMarkdown /\ pdf_created = FALSE /\ file_name = ""
    /\ message = ""

PdfOff ==
    /\ fpc = "off" /\ f_count = 0 /\ f_line = "" /\ f_off = 0 /\ f_drawn = ""
    /\ f_y = 0 /\ f_on_page = 0 /\ f_pages = 0 /\ f_shown = -1

notParser == <<qtyVars, textVars, uiVars, pdfVars>>
notQty == <<parserVars, textVars, uiVars, pdfVars>>
notText == <<parserVars, qtyVars, uiVars, pdfVars>>
notUi == <<parserVars, qtyVars, textVars, pdfVars>>
notPdf == <<parserVars, qtyVars, textVars, uiVars>>

(***************************************************************************)
(* Python string primitives.                                               *)
(***************************************************************************)
Ch(s, i) == SubSeq(s, i, i)

IsSpace(c) == c \in {" ", "\n", "\t"}

RECURSIVE lstrip(_)
lstrip(s) ==
    IF Len(s) > 0 /\ IsSpace(Ch(s, 1)) THEN lstrip(SubSeq(s, 2, Len(s))) ELSE s

RECURSIVE rstrip(_)
rstrip(s) ==
    IF Len(s) > 0 /\ IsSpace(Ch(s, Len(s)))
    THEN rstrip(SubSeq(s, 1, Len(s) - 1)) ELSE s

strip(s) == rstrip(lstrip(s))

\* s.split(sep) for a one-character separator: always at least one segment
RECURSIVE split(_, _)
split(s, sep) ==
    IF \E i \in 1..Len(s) : Ch(s, i) = sep
    THEN LET i == CHOOSE k \in 1..Len(s) :
                    /\ Ch(s, k) = sep
                    /\ \A j \in 1..(k - 1) : Ch(s, j) # sep
         IN  <<SubSeq(s, 1, i - 1)>> \o split(SubSeq(s, i + 1, Len(s)), sep)
    ELSE <<s>>

\* s.splitlines(): no trailing empty line, "" gives no line at all
splitlines(s) ==
    LET parts == split(s, "\n")
    IN  IF parts[Len(parts)] = "" THEN SubSeq(parts, 1, Len(parts) - 1)
        ELSE parts

\* sub in s
Contains(s, sub) ==
    \E i \in 1..(Len(s) - Len(sub) + 1) : SubSeq(s, i, i + Len(sub) - 1) = sub

\* [x.strip() for x in q]
StripAll(q) == [i \in 1..Len(q) |-> strip(q[i])]

NonEmpty(s) == s # ""

(***************************************************************************)
(* IngredientParser                                                        *)
(***************************************************************************)
FALLBACK_INGREDIENTS == <<"onion", "tomato", "oil", "salt">>

clean_ingredients(raw_text) ==
    LET items == StripAll(split(raw_text, ","))
    IN  SelectSeq(items, NonEmpty)

StartsWithBullet(line) == Len(line) > 0 /\ Ch(line, 1) \in {"-", "*"}

parse_ingredients_no_fallback(text) ==
    LET lines   == SelectSeq(StripAll(splitlines(text)), NonEmpty)
        IsItem(line) == StartsWithBullet(line)
                          /\ strip(SubSeq(line, 2, Len(line))) # ""
        marked  == SelectSeq(lines, IsItem)
        bullets == [i \in 1..Len(marked) |->
                        strip(SubSeq(marked[i], 2, Len(marked[i])))]
        HasComma(line) == Contains(line, ",")
        commas  == SelectSeq(lines, HasComma)
    IN  IF bullets # <<>> THEN bullets
        ELSE IF commas # <<>> THEN clean_ingredients(commas[1])
        ELSE <<>>

parse_ingredients_from_text(text) ==
    LET lines   == SelectSeq(StripAll(splitlines(text)), NonEmpty)
        IsItem(line) == StartsWithBullet(line)
                          /\ strip(SubSeq(line, 2, Len(line))) # ""
        marked  == SelectSeq(lines, IsItem)
        bullets == [i \in 1..Len(marked) |->
                        strip(SubSeq(marked[i], 2, Len(marked[i])))]
        HasComma(line) == Contains(line, ",")
        commas  == SelectSeq(lines, HasComma)
        found   == IF bullets # <<>> THEN bullets
                   ELSE IF commas # <<>>
                        THEN SelectSeq(StripAll(split(commas[1], ",")),
                                       NonEmpty)
                        ELSE <<>>
    IN  IF found = <<>> THEN FALLBACK_INGREDIENTS ELSE found

\* every string of at most n characters over the alphabet
RECURSIVE Strings(_, _)
Strings(alpha, n) ==
    IF n = 0 THEN {""}
    ELSE LET shorter == Strings(alpha, n - 1)
         IN  shorter \cup {s \o c : s \in shorter, c \in alpha}

TypedAlphabet == {"a", "B", ",", " "}
ServiceAlphabet == {"a", ",", " ", "\n", "-", "*"}

ParserInit ==
    /\ ppc = "call"
    /\ pmode \in {"typed", "service"}
    /\ praw \in IF pmode = "typed" THEN Strings(TypedAlphabet, MaxRawLen)
                ELSE Strings(ServiceAlphabet, MaxTextLen)
    /\ pout = <<>>
    /\ QtyOff /\ TextOff /\ UiOff /\ PdfOff

CallCleanIngredients ==
    /\ ppc = "call" /\ pmode = "typed"
    /\ pout' = clean_ingredients(praw)
    /\ ppc' = "done"
    /\ UNCHANGED <<pmode, praw, notParser>>

CallParseIngredientsFromText ==
    /\ ppc = "call" /\ pmode = "service"
    /\ pout' = parse_ingredients_from_text(praw)
    /\ ppc' = "done"
    /\ UNCHANGED <<pmode, praw, notParser>>

ParserNext == CallCleanIngredients \/ CallParseIngredientsFromText

SpecParser == ParserInit /\ [][ParserNext]_vars

(***************************************************************************)
(* QuantityEstimator and QuantityFormatter                                 *)
(*                                                                         *)
(* A Python number is [q |-> its value in quarters, int |-> TRUE for an    *)
(* int and FALSE for a float].  Every value met here is a multiple of 1/4, *)
(* hence an exact binary float, so exact integer arithmetic gives the      *)
(* results of the float operations.                                        *)
(***************************************************************************)
PyInt(n) == [q |-> 4 * n, int |-> TRUE]
PyFloat(quarters) == [q |-> quarters, int |-> FALSE]

\* Python int * int is an int, anything else a float
Times(a, n) == [q |-> a.q * n, int |-> a.int]

PER_SERVING_DEFAULTS == <<
    [key |-> "potato",  unit |-> "g",     per |-> PyInt(150)],
    [key |-> "tomato",  unit |-> "g",     per |-> PyInt(70)],
    [key |-> "onion",   unit |-> "g",     per |-> PyInt(50)],
    [key |-> "carrot",  unit |-> "g",     per |-> PyInt(70)],
    [key |-> "chicken", unit |-> "g",     per |-> PyInt(150)],
    [key |-> "rice",    unit |-> "g",     per |-> PyInt(80)],
    [key |-> "pasta",   unit |-> "g",     per |-> PyInt(90)],
    [key |-> "egg",     unit |-> "count", per |-> PyInt(1)],
    [key |-> "milk",    unit |-> "ml",    per |-> PyInt(100)],
    [key |-> "oil",     unit |-> "ml",    per |-> PyInt(10)],
    [key |-> "butter",  unit |-> "g",     per |-> PyInt(10)],
    [key |-> "salt",    unit |-> "tsp",   per |-> PyFloat(2)],
    [key |-> "sugar",   unit |-> "tsp",   per |-> PyInt(1)],
    [key |-> "pepper",  unit |-> "tsp",   per |-> PyFloat(1)],
    [key |-> "garlic",  unit |-> "clove", per |-> PyInt(1)],
    [key |-> "ginger",  unit |-> "g",     per |-> PyInt(5)],
    [key |-> "spices",  unit |-> "tsp",   per |-> PyInt(1)],
    [key |-> "mint",    unit |-> "g",     per |-> PyInt(5)],
    [key |-> "peas",    unit |-> "g",     per |-> PyInt(50)] >>

UPPERCASE == "ABCDEFGHIJKLMNOPQRSTUVWXYZ"
LOWERCASE == "abcdefghijklmnopqrstuvwxyz"

IsUpper(c) == \E i \in 1..26 : Ch(UPPERCASE, i) = c
IsLower(c) == \E i \in 1..26 : Ch(LOWERCASE, i) = c

LowerChar(c) ==
    IF IsUpper(c) THEN Ch(LOWERCASE, CHOOSE i \in 1..26 : Ch(UPPERCASE, i) = c)
    ELSE c

UpperChar(c) ==
    IF IsLower(c) THEN Ch(UPPERCASE, CHOOSE i \in 1..26 : Ch(LOWERCASE, i) = c)
    ELSE c

\* s.lower()
RECURSIVE lower(_)
lower(s) ==
    IF s = "" THEN ""
    ELSE LowerChar(Ch(s, 1)) \o lower(SubSeq(s, 2, Len(s)))

\* Python 3 round(): the integer nearest to num/den, an exact tie going to
\* the even neighbour (num >= 0, den > 0)
RoundHalfUp(num, den) == (2 * num + den) \div (2 * den)

round(num, den) ==
    LET lo  == num \div den
        rem == num - lo * den
    IN  IF 2 * rem < den THEN lo
        ELSE IF 2 * rem > den THEN lo + 1
        ELSE IF lo % 2 = 0 THEN lo ELSE lo + 1

\* str() of the float k / 10^digits: the shortest decimal that reads back,
\* which keeps one digit after the point at least
FloatStr(k, digits) ==
    IF digits = 1
    THEN ToString(k \div 10) \o "." \o ToString(k % 10)
    ELSE LET frac == k % 100
         IN  ToString(k \div 100) \o "."
               \o (IF frac % 10 = 0 THEN ToString(frac \div 10)
                   ELSE ToString(frac \div 10) \o ToString(frac % 10))

Round2StrAsFloat(value) == FloatStr(round(value.q * 100, 4), 2)

\* str(round(value, 2)) for a multiple of 1/4: an int stays an int
Round2Str(value) ==
    IF value.int THEN ToString(value.q \div 4)
    ELSE FloatStr(round(value.q * 100, 4), 2)

format_quantity(value, unit) ==
    IF unit = "g" THEN ToString(round(value.q, 20) * 5) \o " g"
    ELSE IF unit = "ml" THEN ToString(round(value.q, 20) * 5) \o " ml"
    ELSE IF unit = "count" THEN ToString(round(value.q, 4)) \o " pcs"
    ELSE IF unit = "clove" THEN ToString(round(value.q, 4)) \o " clove(s)"
    ELSE IF unit = "tsp"
         THEN IF value.q >= 3 * 4
              THEN FloatStr(round(value.q * 10, 4 * 3), 1) \o " tbsp"
              ELSE Round2Str(value) \o " tsp"
    ELSE IF unit = "tbsp"
         THEN IF value.q >= 16 * 4
              THEN FloatStr(round(value.q * 100, 4 * 16), 2) \o " cup(s)"
              ELSE Round2Str(value) \o " tbsp"
    ELSE Round2Str(value) \o " " \o unit

\* the table scan of estimate_quantity: the entry used, from index i on
RECURSIVE LastMatch(_, _)
LastMatch(key, i) ==
    IF i = 0 THEN [unit |-> "tbsp", per |-> PyInt(1)]
    ELSE IF Contains(key, PER_SERVING_DEFAULTS[i].key)
         THEN [unit |-> PER_SERVING_DEFAULTS[i].unit,
               per  |-> PER_SERVING_DEFAULTS[i].per]
         ELSE LastMatch(key, i - 1)

RECURSIVE ScanDefaults(_, _)
ScanDefaults(key, i) ==
    IF i > Len(PER_SERVING_DEFAULTS) THEN [unit |-> "tbsp", per |-> PyInt(1)]
    ELSE IF Contains(key, PER_SERVING_DEFAULTS[i].key)
         THEN [unit |-> PER_SERVING_DEFAULTS[i].unit,
               per  |-> PER_SERVING_DEFAULTS[i].per]
         ELSE ScanDefaults(key, i + 1)

ScanFromEnd(ingredient) == LastMatch(lower(ingredient), Len(PER_SERVING_DEFAULTS))

\* the (unit, per-serving amount) estimate_quantity settles on
MatchDefault(ingredient) == ScanDefaults(lower(ingredient), 1)

estimate_quantity(ingredient, servings_) ==
    LET m == MatchDefault(ingredient)
    IN  format_quantity(Times(m.per, servings_), m.unit)


MIN_SERVINGS == 1
MAX_SERVINGS == 45

IngredientNames ==
    {"gingerbread", "Potato", "POTATO", "Sweet Potato", "kelp", "",
     "onion tomato", "Garlic Salt", "Eggplant", "peppermint", "licorice",
     "Boiled Water", "sugar", "salt", "Black Pepper", "milk", "garlic",
     "egg", "olive oil", "green peas", "Mixed Spices", "mint", "Ginger",
     "butter chicken", "pasta", "carrot", "tofu"}

Units == {"g", "ml", "count", "clove", "tsp", "tbsp", "kg"}

\* ints 0, 1, 2, ... and floats 0.0, 0.25, 0.5, ...
Values ==
    {PyFloat(n) : n \in 0..MaxValueQ} \cup {PyInt(n) : n \in 0..(MaxValueQ \div 4)}

QtyInit ==
    /\ qpc = "call"
    /\ qcall \in {"estimate", "format"}
    /\ q_ingredient \in IF qcall = "estimate" THEN IngredientNames ELSE {""}
    /\ q_servings \in IF qcall = "estimate" THEN MIN_SERVINGS..MAX_SERVINGS
                      ELSE {0}
    /\ q_value \in IF qcall = "format" THEN Values ELSE {PyInt(0)}
    /\ q_unit \in IF qcall = "format" THEN Units ELSE {""}
    /\ q_out = ""
    /\ ParserOff /\ TextOff /\ UiOff /\ PdfOff

CallEstimateQuantity ==
    /\ qpc = "call" /\ qcall = "estimate"
    /\ LET m == MatchDefault(q_ingredient)
       IN  /\ q_unit' = m.unit
           /\ q_value' = Times(m.per, q_servings)
    /\ q_out' = estimate_quantity(q_ingredient, q_servings)
    /\ qpc' = "done"
    /\ UNCHANGED <<qcall, q_ingredient, q_servings, notQty>>

CallFormatQuantity ==
    /\ qpc = "call" /\ qcall = "format"
    /\ q_out' = format_quantity(q_value, q_unit)
    /\ qpc' = "done"
    /\ UNCHANGED <<qcall, q_ingredient, q_servings, q_value, q_unit, notQty>>

QtyNext == CallEstimateQuantity \/ CallFormatQuantity

SpecQty == QtyInit /\ [][QtyNext]_vars


(***************************************************************************)
(* Title and step synthesis.  Python's None and "" are both falsy and the  *)
(* dish name is only ever tested for truth, so None is written "".         *)
(***************************************************************************)

IsCased(c) == IsUpper(c) \/ IsLower(c)

\* s.title(): a letter is upper-cased after a character that is not a
\* letter (or at the start) and lower-cased after a letter
RECURSIVE TitleFrom(_, _)
TitleFrom(s, afterLetter) ==
    IF s = "" THEN ""
    ELSE LET c == Ch(s, 1)
         IN  (IF afterLetter THEN LowerChar(c) ELSE UpperChar(c))
               \o TitleFrom(SubSeq(s, 2, Len(s)), IsCased(c))

title(s) == TitleFrom(s, FALSE)

\* sep.join(items)
RECURSIVE Join(_, _)
Join(items, sep) ==
    IF items = <<>> THEN ""
    ELSE IF Len(items) = 1 THEN items[1]
    ELSE items[1] \o sep \o Join(Tail(items), sep)

generate_ingredients_list(ingredients, servings_) ==
    LET used == IF ingredients = <<>> THEN <<"salt", "pepper", "oil">>
                ELSE ingredients
        Line(ing) == "- " \o estimate_quantity(ing, servings_) \o " "
                          \o title(strip(ing))
    IN  Join(<<"- Serves: " \o ToString(servings_)>>
               \o [i \in 1..Len(used) |-> Line(used[i])], "\n")

recipe_name_untitled(ingredients, cuisine_, meal_type_, suggested_name) ==
    LET base == IF suggested_name # "" THEN suggested_name
                ELSE IF ingredients # <<>>
                     THEN ingredients[1] \o " " \o meal_type_
                     ELSE "Chef's Special " \o meal_type_
    IN  IF cuisine_ # "" /\ cuisine_ # "Any" THEN cuisine_ \o " " \o base
        ELSE base

generate_recipe_name(ingredients, cuisine_, meal_type_, suggested_name) ==
    LET base == IF suggested_name # "" THEN suggested_name
                ELSE IF ingredients # <<>>
                     THEN title(ingredients[1]) \o " " \o meal_type_
                     ELSE "Chef's Special " \o meal_type_
    IN  IF cuisine_ # "" /\ cuisine_ # "Any" THEN cuisine_ \o " " \o base
        ELSE base

StepsBase(ingredients, cuisine_, meal_type_, cooking_time_, dish_name_) ==
    LET used == IF ingredients = <<>> THEN <<"your chosen ingredients">>
                ELSE ingredients
        method == IF \E i \in 1..Len(used) : Contains(lower(used[i]), "oil")
                  THEN "saute" ELSE "mix"
        name_text == IF dish_name_ # "" THEN dish_name_ ELSE lower(meal_type_)
    IN  << "1. Prepare all ingredients by washing, peeling, and chopping as needed.",
           "2. Heat a pan and " \o method \o " the base ingredients (like onions, garlic, or aromatics) if available.",
           "3. Add the main ingredients: " \o Join(used, ", ") \o ".",
           "4. Season with salt, pepper, and any spices that match " \o cuisine_ \o " cuisine.",
           "5. Cook for about " \o ToString(cooking_time_) \o " minutes, stirring occasionally.",
           "6. Taste and adjust seasoning. Serve hot as a delicious " \o name_text \o "." >>

Step7(cuisine_) ==
    "7. For extra authenticity, add classic " \o cuisine_
        \o " garnishes or sides (e.g., herbs, bread, or rice)."

steps_any_cuisine(ingredients, cuisine_, meal_type_, cooking_time_, dish_name_) ==
    LET steps == StepsBase(ingredients, cuisine_, meal_type_, cooking_time_, dish_name_)
    IN  IF cuisine_ # "" THEN Append(steps, Step7(cuisine_)) ELSE steps

\* the list `steps` that generate_steps builds
steps_list(ingredients, cuisine_, meal_type_, cooking_time_, dish_name_) ==
    LET steps == StepsBase(ingredients, cuisine_, meal_type_, cooking_time_, dish_name_)
    IN  IF cuisine_ # "" /\ cuisine_ # "Any" THEN Append(steps, Step7(cuisine_))
        ELSE steps

generate_steps(ingredients, cuisine_, meal_type_, cooking_time_, dish_name_) ==
    Join(steps_list(ingredients, cuisine_, meal_type_, cooking_time_, dish_name_),
         "\n")

\* the composed recipe: the title and the fields the markdown text is made of
generate_recipe(ingredients_list_, cuisine_, meal_type_, servings_, cooking_time_, dish_name_) ==
    LET title_ == generate_recipe_name(ingredients_list_, cuisine_, meal_type_,
                                       dish_name_)
    IN  [title |-> title_,
         markdown |->
            [title |-> title_, cuisine |-> cuisine_, meal_type |-> meal_type_,
             cooking_time |-> cooking_time_,
             ingredients_block |->
                 generate_ingredients_list(ingredients_list_, servings_),
             steps_block |->
                 generate_steps(ingredients_list_, cuisine_, meal_type_,
                                cooking_time_, dish_name_)]]

CUISINES == {"Any", "Indian", "Italian", "Chinese", "Mexican", "American",
             "Thai", "Other"}
MEAL_TYPES == {"Dish", "Curry", "Salad", "Pasta", "Soup", "Snack"}

IngredientLists ==
    { <<>>, <<"chicken", "rice">>, <<"olive OIL">>,
      <<"potato", "Tomato", "sunflower oil">>, <<"o'neil 2nd", "kelp">> }

CookingTimes == {5, 30, 240}
DishNames == {None, "Pad Thai", "Unknown Dish (error)"}

TextInit ==
    /\ tpc = "call"
    /\ tcall \in {"steps", "name"}
    /\ t_ingredients \in IngredientLists
    /\ t_cuisine \in CUISINES \cup {""}
    /\ t_meal_type \in MEAL_TYPES
    /\ t_cooking_time \in IF tcall = "steps" THEN CookingTimes ELSE {0}
    /\ t_dish_name \in DishNames
    /\ t_steps = <<>>
    /\ t_out = ""
    /\ ParserOff /\ QtyOff /\ UiOff /\ PdfOff

CallGenerateSteps ==
    /\ tpc = "call" /\ tcall = "steps"
    /\ t_steps' = steps_list(t_ingredients, t_cuisine, t_meal_type,
                             t_cooking_time, t_dish_name)
    /\ t_out' = generate_steps(t_ingredients, t_cuisine, t_meal_type,
                               t_cooking_time, t_dish_name)
    /\ tpc' = "done"
    /\ UNCHANGED <<tcall, t_ingredients, t_cuisine, t_meal_type,
                   t_cooking_time, t_dish_name, notText>>

CallGenerateRecipeName ==
    /\ tpc = "call" /\ tcall = "name"
    /\ t_out' = generate_recipe_name(t_ingredients, t_cuisine, t_meal_type,
                                     t_dish_name)
    /\ tpc' = "done"
    /\ UNCHANGED <<tcall, t_ingredients, t_cuisine, t_meal_type,
                   t_cooking_time, t_dish_name, t_steps, notText>>

TextNext == CallGenerateSteps \/ CallGenerateRecipeName

SpecText == TextInit /\ [][TextNext]_vars

(***************************************************************************)
(* Vision stage                                                            *)
(***************************************************************************)
\* line.split(":", 1)
SplitOnce(line, sep) ==
    IF Contains(line, sep)
    THEN LET i == CHOOSE k \in 1..Len(line) :
                    /\ Ch(line, k) = sep
                    /\ \A j \in 1..(k - 1) : Ch(line, j) # sep
         IN  <<SubSeq(line, 1, i - 1), SubSeq(line, i + 1, Len(line))>>
    ELSE <<line>>

StartsWithText(s, prefix) ==
    Len(s) >= Len(prefix) /\ SubSeq(s, 1, Len(prefix)) = prefix

\* the dish-name loop over the lines of the response text
ParseDishName(text) ==
    LET lines == splitlines(text)
        IsHeader(line) == StartsWithText(lower(line), "dish name")
        headers == SelectSeq(lines, IsHeader)
    IN  IF headers = <<>> THEN "Unknown Dish"
        ELSE LET parts == SplitOnce(headers[1], ":")
             IN  IF Len(parts) = 2 THEN strip(parts[2]) ELSE "Unknown Dish"

analyze_without_generic_handler(key, outcome) ==
    IF ~key
    THEN [dish_name |-> "Unknown Dish (no API key)",
          ingredients |-> FALLBACK_INGREDIENTS,
          called |-> FALSE, raised |-> FALSE]
    ELSE IF outcome.kind = "ok"
    THEN LET text == strip(outcome.text)
         IN  [dish_name |-> ParseDishName(text),
              ingredients |-> parse_ingredients_from_text(text),
              called |-> TRUE, raised |-> FALSE]
    ELSE IF outcome.kind = "InvalidArgument"
    THEN [dish_name |-> "Gemini Error: " \o outcome.message,
          ingredients |-> FALLBACK_INGREDIENTS,
          called |-> TRUE, raised |-> FALSE]
    ELSE [dish_name |-> "", ingredients |-> <<>>,
          called |-> TRUE, raised |-> TRUE]

\* the pair returned when the service, if called, behaves as `outcome`;
\* `called` records whether the service was called and `raised` whether an
\* exception left the function
analyze_image_and_extract_recipe_info(key, outcome) ==
    IF ~key
    THEN [dish_name |-> "Unknown Dish (no API key)",
          ingredients |-> FALLBACK_INGREDIENTS,
          called |-> FALSE, raised |-> FALSE]
    ELSE IF outcome.kind = "ok"
    THEN LET text == strip(outcome.text)
         IN  [dish_name |-> ParseDishName(text),
              ingredients |-> parse_ingredients_from_text(text),
              called |-> TRUE, raised |-> FALSE]
    ELSE IF outcome.kind = "InvalidArgument"
    THEN [dish_name |-> "Gemini Error: " \o outcome.message,
          ingredients |-> FALLBACK_INGREDIENTS,
          called |-> TRUE, raised |-> FALSE]
    ELSE [dish_name |-> "Unknown Dish (error)",
          ingredients |-> FALLBACK_INGREDIENTS,
          called |-> TRUE, raised |-> FALSE]

(***************************************************************************)
(* The Streamlit script: one run per interaction                           *)
(***************************************************************************)
\* s.replace(" ", "_")
RECURSIVE SpacesToUnderscores(_)
SpacesToUnderscores(s) ==
    IF s = "" THEN ""
    ELSE (IF Ch(s, 1) = " " THEN "_" ELSE Ch(s, 1))
           \o SpacesToUnderscores(SubSeq(s, 2, Len(s)))

INPUT_MODES == {"Type Ingredients", "Upload Food Photo"}

ServiceOutcomes ==
    { [kind |-> "ok", message |-> "",
       text |-> "Dish name: Pad Thai\nIngredients:\n- noodles\n- egg\n"],
      [kind |-> "ok", message |-> "", text |-> "dish name\nrice, peas"],
      [kind |-> "ok", message |-> "", text |-> "I cannot tell"],
      [kind |-> "ok", message |-> "",
       text |-> "Dish name: Gemini Error: quota\n* rice"],
      [kind |-> "InvalidArgument", message |-> "API key not valid", text |-> ""],
      [kind |-> "Exception", message |-> "", text |-> ""] }

UiCuisines == {"Any", "Thai"}

UiInit ==
    /\ upc = "idle"
    /\ GOOGLE_API_KEY \in BOOLEAN
    /\ input_mode = "Type Ingredients"
    /\ cuisine = "Any" /\ meal_type = "Dish" /\ servings = 2
    /\ cooking_time = 30
    /\ ingredients_text = "" /\ uploaded_file = FALSE /\ clicked = FALSE
    /\ svc = NoService /\ analysis = NoAnalysis /\ dish_name = None
    /\ ingredients_list = <<>> /\ engine_called = FALSE
    /\ recipe_title = None /\ recipe_markdown = NoMarkdown
    /\ pdf_created = FALSE /\ file_name = "" /\ message = ""
    /\ ParserOff /\ QtyOff /\ TextOff /\ PdfOff

\* lines 282-296: the script starts over, reads the widgets and clears the
\* recipe
BeginRun ==
    /\ upc = "idle"
    /\ \E mode \in INPUT_MODES, c \in UiCuisines, press \in BOOLEAN :
        /\ input_mode' = mode
        /\ cuisine' = c
        /\ clicked' = press
        /\ \/ /\ mode = "Type Ingredients"
              /\ ingredients_text' \in Strings(TypedAlphabet, MaxTypedLen)
              /\ uploaded_file' = FALSE
              /\ svc' = NoService
           \/ /\ mode = "Upload Food Photo"
              /\ ingredients_text' = ""
              /\ uploaded_file' \in BOOLEAN
              /\ svc' \in IF uploaded_file' /\ press
                          THEN ServiceOutcomes ELSE {NoService}
    /\ recipe_title' = None
    /\ recipe_markdown' = NoMarkdown
    /\ analysis' = NoAnalysis /\ dish_name' = None /\ ingredients_list' = <<>>
    /\ engine_called' = FALSE /\ pdf_created' = FALSE /\ file_name' = ""
    /\ message' = ""
    /\ upc' = "handler"
    /\ UNCHANGED <<GOOGLE_API_KEY, meal_type, servings, cooking_time, notUi>>

\* lines 298-306
HandleTyped ==
    /\ upc = "handler" /\ input_mode = "Type Ingredients"
    /\ IF ~clicked
       THEN UNCHANGED <<ingredients_list, engine_called, recipe_title,
                        recipe_markdown, message>>
       ELSE IF strip(ingredients_text) = ""
       THEN /\ message' = "Please enter at least one ingredient."
            /\ UNCHANGED <<ingredients_list, engine_called, recipe_title,
                           recipe_markdown>>
       ELSE LET list == clean_ingredients(ingredients_text)
                r == generate_recipe(list, cuisine, meal_type, servings,
                                     cooking_time, None)
            IN  /\ ingredients_list' = list
                /\ engine_called' = TRUE
                /\ recipe_title' = r.title
                /\ recipe_markdown' = r.markdown
                /\ UNCHANGED message
    /\ upc' = "display"
    /\ UNCHANGED <<GOOGLE_API_KEY, input_mode, cuisine, meal_type, servings,
                   cooking_time, ingredients_text, uploaded_file, clicked,
                   svc, analysis, dish_name, pdf_created, file_name, notUi>>

\* lines 307-329
HandleImage ==
    /\ upc = "handler" /\ input_mode = "Upload Food Photo"
    /\ IF ~clicked
       THEN /\ upc' = "display"
            /\ UNCHANGED <<analysis, dish_name, ingredients_list,
                           engine_called, recipe_title, recipe_markdown,
                           message>>
       ELSE IF ~uploaded_file
       THEN /\ message' = "Please upload an image first!"
            /\ upc' = "display"
            /\ UNCHANGED <<analysis, dish_name, ingredients_list,
                           engine_called, recipe_title, recipe_markdown>>
       ELSE LET a == analyze_image_and_extract_recipe_info(GOOGLE_API_KEY, svc)
                isError == StartsWithText(a.dish_name, "Gemini Error")
                dish == IF isError THEN None ELSE a.dish_name
                r == generate_recipe(a.ingredients, cuisine, meal_type,
                                     servings, cooking_time, dish)
            IN  /\ analysis' = a
                /\ IF a.raised
                   THEN \* the exception ends the script run
                        /\ upc' = "idle"
                        /\ UNCHANGED <<dish_name, ingredients_list,
                                       engine_called, recipe_title,
                                       recipe_markdown, message>>
                   ELSE /\ dish_name' = dish
                        /\ ingredients_list' = a.ingredients
                        /\ engine_called' = TRUE
                        /\ recipe_title' = r.title
                        /\ recipe_markdown' = r.markdown
                        /\ message' = IF isError THEN a.dish_name ELSE ""
                        /\ upc' = "display"
    /\ UNCHANGED <<GOOGLE_API_KEY, input_mode, cuisine, meal_type, servings,
                   cooking_time, ingredients_text, uploaded_file, clicked,
                   svc, pdf_created, file_name, notUi>>

\* lines 332-344
Display ==
    /\ upc = "display"
    /\ IF recipe_markdown # NoMarkdown
       THEN /\ pdf_created' = TRUE
            /\ file_name' = SpacesToUnderscores(
                               IF recipe_title # None THEN recipe_title
                               ELSE "recipe") \o ".pdf"
            /\ message' = IF message = ""
                          THEN "Recipe ready - you can download it as a PDF."
                          ELSE message
       ELSE /\ message' = IF message = "" THEN "No recipe generated yet."
                          ELSE message
            /\ UNCHANGED <<pdf_created, file_name>>
    /\ upc' = "idle"
    /\ UNCHANGED <<GOOGLE_API_KEY, input_mode, cuisine, meal_type, servings,
                   cooking_time, ingredients_text, uploaded_file, clicked,
                   svc, analysis, dish_name, ingredients_list, engine_called,
                   recipe_title, recipe_markdown, notUi>>

UiNext == BeginRun \/ HandleTyped \/ HandleImage \/ Display

SpecUi == UiInit /\ [][UiNext]_vars

(***************************************************************************)
(* DocumentPaginator: create_pdf_from_recipe.  Lengths on the page are in  *)
(* tenths of a point: the letter page is 792 pt high, the text starts 50   *)
(* pt below its top, a 12 pt font has a leading of 1.2 * 12 = 14.4 pt.     *)
(***************************************************************************)
PAGE_HEIGHT == 7920
TOP_OFFSET == 500
BOTTOM_MARGIN == 400
LEADING == 144
WRAP == 90

\* c.beginText(40, height - 50)
TopY == PAGE_HEIGHT - TOP_OFFSET

\* s.replace(old, new), left to right, occurrences not overlapping
RECURSIVE Replace(_, _, _)
Replace(s, old, new) ==
    IF ~Contains(s, old) THEN s
    ELSE LET i == CHOOSE k \in 1..Len(s) :
                    /\ SubSeq(s, k, k + Len(old) - 1) = old
                    /\ \A j \in 1..(k - 1) : SubSeq(s, j, j + Len(old) - 1) # old
         IN  SubSeq(s, 1, i - 1) \o new
               \o Replace(SubSeq(s, i + Len(old), Len(s)), old, new)

BULLET == "â€¢ "

\* lines 251-254: markdown markers removed, bullet marker replaced
CleanLine(raw) ==
    LET line == Replace(Replace(raw, "## ", ""), "### ", "")
    IN  IF StartsWithText(line, "- ")
        THEN BULLET \o SubSeq(line, 3, Len(line))
        ELSE line

NeedsNewPageAtZero(y) == y < 0

\* textobject.getY() < 40
NeedsNewPage(y) == y < BOTTOM_MARGIN

RECURSIVE Repeat(_, _)
Repeat(s, n) == IF n = 0 THEN "" ELSE s \o Repeat(s, n - 1)

RawLines ==
    { "", "### Steps", "- 2 g Salt",
      "- " \o Repeat("0123456789", 9),
      Repeat("abcdefghij", 20) }

Min(a, b) == IF a < b THEN a ELSE b

PdfInit ==
    /\ fpc = "loop"
    /\ f_count = 0
    /\ f_line = "" /\ f_off = 0 /\ f_drawn = ""
    /\ f_y = TopY
    /\ f_on_page = 0 /\ f_pages = 0 /\ f_shown = -1
    /\ ParserOff /\ QtyOff /\ TextOff /\ UiOff

\* lines 266-272: a line of at most 90 characters, then the page check
DrawShortLine ==
    /\ fpc = "loop" /\ f_count < MaxLines
    /\ \E raw \in RawLines :
        LET line == CleanLine(raw)
            y == f_y - LEADING
        IN  /\ Len(line) <= WRAP
            /\ f_drawn' = line
            /\ IF NeedsNewPage(y)
               THEN /\ f_pages' = f_pages + 1
                    /\ f_shown' = f_on_page + 1
                    /\ f_y' = TopY
                    /\ f_on_page' = 0
               ELSE /\ f_y' = y
                    /\ f_on_page' = f_on_page + 1
                    /\ UNCHANGED <<f_pages, f_shown>>
    /\ f_count' = f_count + 1
    /\ UNCHANGED <<fpc, f_line, f_off, notPdf>>

\* lines 256-258: a longer line is cut into parts
StartLongLine ==
    /\ fpc = "loop" /\ f_count < MaxLines
    /\ \E raw \in RawLines :
        /\ Len(CleanLine(raw)) > WRAP
        /\ f_line' = CleanLine(raw)
    /\ f_off' = 0
    /\ fpc' = "chunks"
    /\ UNCHANGED <<f_count, f_drawn, f_y, f_on_page, f_pages, f_shown, notPdf>>

\* lines 259-265: the next part, then the page check
DrawChunk ==
    /\ fpc = "chunks" /\ f_off < Len(f_line)
    /\ LET upto == Min(f_off + WRAP, Len(f_line))
           y == f_y - LEADING
       IN  /\ f_drawn' = SubSeq(f_line, f_off + 1, upto)
           /\ f_off' = upto
           /\ IF NeedsNewPage(y)
              THEN /\ f_pages' = f_pages + 1
                   /\ f_shown' = f_on_page + 1
                   /\ f_y' = TopY
                   /\ f_on_page' = 0
              ELSE /\ f_y' = y
                   /\ f_on_page' = f_on_page + 1
                   /\ UNCHANGED <<f_pages, f_shown>>
    /\ UNCHANGED <<fpc, f_count, f_line, notPdf>>

\* lines 268-272 after the last part of a long line
EndLongLine ==
    /\ fpc = "chunks" /\ f_off >= Len(f_line)
    /\ IF NeedsNewPage(f_y)
       THEN /\ f_pages' = f_pages + 1
            /\ f_shown' = f_on_page
            /\ f_y' = TopY
            /\ f_on_page' = 0
       ELSE UNCHANGED <<f_pages, f_shown, f_y, f_on_page>>
    /\ f_count' = f_count + 1
    /\ fpc' = "loop"
    /\ UNCHANGED <<f_line, f_off, f_drawn, notPdf>>

\* lines 273-277: the last text object is drawn and its page shown;
\* str.split always yields one line at least
Finish ==
    /\ fpc = "loop" /\ f_count >= 1
    /\ f_pages' = f_pages + 1
    /\ f_shown' = f_on_page
    /\ fpc' = "done"
    /\ UNCHANGED <<f_count, f_line, f_off, f_drawn, f_y, f_on_page, notPdf>>

PdfNext ==
    DrawShortLine \/ StartLongLine \/ DrawChunk \/ EndLongLine \/ Finish

SpecPdf == PdfInit /\ [][PdfNext]_vars

(***************************************************************************)
(* Claims about the parser (SpecParser)                                    *)
(***************************************************************************)
OnlySeparators(raw) ==
    \A i \in 1..Len(raw) : Ch(raw, i) = "," \/ IsSpace(Ch(raw, i))

\* C1 as stated: whichever entry point ran, the parser returned at least
\* one ingredient name.
C1_NeverEmpty == ppc = "done" => Len(pout) >= 1

\* C1 amended: service-output mode always returns at least one name, and the
\* fixed fallback when the text has no bullet marker and no comma; typed mode
\* returns only non-empty trimmed names and returns none exactly when the raw
\* text holds nothing but commas and whitespace.
C1_ParserContract ==
    ppc = "done" =>
        /\ \A i \in 1..Len(pout) : pout[i] # "" /\ strip(pout[i]) = pout[i]
        /\ pmode = "service" => Len(pout) >= 1
        /\ (pmode = "service" /\ ~Contains(praw, "-") /\ ~Contains(praw, "*")
              /\ ~Contains(praw, ","))
             => pout = <<"onion", "tomato", "oil", "salt">>
        /\ pmode = "typed" => (Len(pout) = 0 <=> OnlySeparators(praw))

C1_Witness == ppc = "done" /\ pmode = "typed" /\ praw = " , " /\ pout = <<>>

(***************************************************************************)
(* Claims about quantities (SpecQty)                                       *)
(***************************************************************************)
CanonicalKeys ==
    <<"potato", "tomato", "onion", "carrot", "chicken", "rice", "pasta",
      "egg", "milk", "oil", "butter", "salt", "sugar", "pepper", "garlic",
      "ginger", "spices", "mint", "peas">>

MatchingKeys(name) ==
    {i \in 1..Len(CanonicalKeys) : Contains(lower(name), CanonicalKeys[i])}

\* C5: estimate_quantity uses the unit and per-serving amount of the first
\* key, in canonical table order, that is a substring of the lower-cased
\* name, total = amount * servings; with no such key it uses 1 tbsp per
\* serving; "gingerbread" is quantified as ginger, 5 g per serving.
C5_FirstMatchWins ==
    (qpc = "done" /\ qcall = "estimate") =>
        LET hits == MatchingKeys(q_ingredient)
        IN  /\ \A i \in 1..Len(CanonicalKeys) :
                   PER_SERVING_DEFAULTS[i].key = CanonicalKeys[i]
            /\ hits # {} =>
                 LET first == CHOOSE i \in hits : \A j \in hits : i <= j
                 IN  /\ q_unit = PER_SERVING_DEFAULTS[first].unit
                     /\ q_value.q = PER_SERVING_DEFAULTS[first].per.q * q_servings
            /\ hits = {} => q_unit = "tbsp" /\ q_value = PyInt(q_servings)
            /\ q_ingredient = "gingerbread" =>
                 /\ q_unit = "g"
                 /\ q_value = PyInt(5 * q_servings)
                 /\ q_out = ToString(5 * q_servings) \o " g"

C5_Witness ==
    /\ qpc = "done" /\ q_ingredient = "Garlic Salt" /\ q_servings = 2
    /\ q_unit = "tsp" /\ q_out = "1.0 tsp"

\* the hundredths k nearest to total/16, an exact tie going to the even k
NearestCupHundredths(total, k) ==
    LET d == 100 * total - 16 * k
    IN  (-8 < d /\ d < 8) \/ (d \in {-8, 8} /\ k % 2 = 0)

\* C6 as stated: "kelp" for 10 servings is displayed "10.0 tbsp", a
\* tablespoon total below 16 is displayed as a decimal value.
C6_DecimalTbsp ==
    (qpc = "done" /\ qcall = "estimate" /\ MatchingKeys(q_ingredient) = {}) =>
        /\ (q_ingredient = "kelp" /\ q_servings = 10) => q_out = "10.0 tbsp"
        /\ q_servings < 16 => q_out = ToString(q_servings) \o ".0 tbsp"

\* C6 amended: for a name no key matches the tablespoon fallback applies;
\* a total below 16 is displayed as the integer itself, without a decimal
\* point, followed by " tbsp" ("kelp", 10 servings: "10 tbsp"); a total of 16
\* or more is displayed as total/16 rounded to two decimals, followed by
\* " cup(s)".
C6_TbspFallback ==
    (qpc = "done" /\ qcall = "estimate" /\ MatchingKeys(q_ingredient) = {}) =>
        /\ q_unit = "tbsp" /\ q_value = PyInt(q_servings)
        /\ (q_ingredient = "kelp" /\ q_servings = 10) => q_out = "10 tbsp"
        /\ q_servings < 16 => q_out = ToString(q_servings) \o " tbsp"
        /\ q_servings >= 16 =>
             \E k \in 100..((100 * q_servings) \div 16 + 1) :
                 /\ NearestCupHundredths(q_servings, k)
                 /\ q_out = FloatStr(k, 2) \o " cup(s)"
        /\ q_servings = 16 => q_out = "1.0 cup(s)"
        /\ q_servings = 18 => q_out = "1.12 cup(s)"
        /\ q_servings = 45 => q_out = "2.81 cup(s)"

C6_Witness ==
    /\ qpc = "done" /\ q_ingredient = "kelp" /\ q_servings = 10
    /\ q_out = "10 tbsp"

RoundedUnits == {"g", "ml", "count", "clove"}

Suffix(unit) ==
    CASE unit = "g" -> " g" [] unit = "ml" -> " ml"
      [] unit = "count" -> " pcs" [] unit = "clove" -> " clove(s)"

\* the spacing of the rounding targets of a unit, in quarters
Granularity(unit) == IF unit \in {"g", "ml"} THEN 20 ELSE 4

\* C7 as stated: grams and millilitres go to the nearest multiple of 5,
\* count and clove to the nearest integer, a value exactly halfway between two
\* targets going to the larger one.
C7_HalfUp ==
    (qpc = "done" /\ qcall = "format" /\ q_unit \in RoundedUnits) =>
        LET g == Granularity(q_unit)
            n == (2 * q_value.q + g) \div (2 * g)
        IN  q_out = ToString(n * (g \div 4)) \o Suffix(q_unit)

\* C7 amended: grams and millilitres go to the nearest multiple of 5, count
\* and clove to the nearest integer; a value exactly halfway between two
\* targets goes to the one that is an even multiple of the granularity
\* (2.5 -> 2, 3.5 -> 4, 12.5 g -> 10 g, 17.5 g -> 20 g).
C7_HalfEven ==
    (qpc = "done" /\ qcall = "format" /\ q_unit \in RoundedUnits) =>
        LET g == Granularity(q_unit)
        IN  \E n \in 0..(q_value.q \div g + 1) :
                LET d == q_value.q - n * g
                IN  /\ (-g < 2 * d /\ 2 * d < g)
                         \/ (2 * d \in {-g, g} /\ n % 2 = 0)
                    /\ q_out = ToString(n * (g \div 4)) \o Suffix(q_unit)

C7_Witness ==
    /\ qpc = "done" /\ qcall = "format" /\ q_unit = "g"
    /\ q_value = PyFloat(50) /\ q_out = "10 g"


(***************************************************************************)
(* Claims about title and step synthesis (SpecText)                        *)
(***************************************************************************)
StartsWith(s, prefix) ==
    Len(s) >= Len(prefix) /\ SubSeq(s, 1, Len(prefix)) = prefix

\* C8: generate_steps emits exactly 6 numbered steps when the cuisine is
\* "Any" or absent and exactly 7 otherwise; steps 1..6 are always present in
\* that order, and the 7th, when present, is last and names the cuisine.
C8_StepCount ==
    (tpc = "done" /\ tcall = "steps") =>
        LET n == IF t_cuisine \in {"", "Any"} THEN 6 ELSE 7
        IN  /\ Len(t_steps) = n
            /\ \A i \in 1..n : StartsWith(t_steps[i], ToString(i) \o ". ")
            /\ n = 7 => Contains(t_steps[7], "classic " \o t_cuisine \o " ")
            /\ t_out = Join(t_steps, "\n")

C8_Witness ==
    /\ tpc = "done" /\ tcall = "steps" /\ t_cuisine = "Thai"
    /\ Len(t_steps) = 7 /\ Contains(t_steps[7], "Thai")

\* the title-cased form of the first ingredients used as inputs
TitleCased(name) ==
    CASE name = "chicken" -> "Chicken"
      [] name = "olive OIL" -> "Olive Oil"
      [] name = "potato" -> "Potato"
      [] name = "o'neil 2nd" -> "O'Neil 2Nd"

\* C9: the title's base is the supplied dish name verbatim if there is one,
\* else the title-cased first ingredient followed by the meal type if there
\* is an ingredient, else "Chef's Special" followed by the meal type; the
\* cuisine is prefixed exactly when it is present and not "Any".
C9_TitleSynthesis ==
    (tpc = "done" /\ tcall = "name") =>
        LET base ==
              CASE t_dish_name # "" -> t_dish_name
                [] t_dish_name = "" /\ t_ingredients # <<>> ->
                       TitleCased(t_ingredients[1]) \o " " \o t_meal_type
                [] OTHER -> "Chef's Special " \o t_meal_type
        IN  /\ t_cuisine \in {"", "Any"} => t_out = base
            /\ t_cuisine \notin {"", "Any"} => t_out = t_cuisine \o " " \o base
            /\ (t_ingredients = <<"chicken", "rice">> /\ t_cuisine = "Indian"
                  /\ t_meal_type = "Curry" /\ t_dish_name = "")
                 => t_out = "Indian Chicken Curry"

C9_Witness ==
    /\ tpc = "done" /\ tcall = "name"
    /\ t_ingredients = <<"chicken", "rice">> /\ t_cuisine = "Indian"
    /\ t_meal_type = "Curry" /\ t_dish_name = ""
    /\ t_out = "Indian Chicken Curry"


(***************************************************************************)
(* Claims about the interaction handler (SpecUi)                           *)
(***************************************************************************)
HandlerRan == upc \in {"display", "idle"}

\* C2: generate_recipe is called only with a non-empty ingredient sequence;
\* when no ingredient was typed (typed mode) or no image was chosen (image
\* mode) no recipe is composed; create_pdf_from_recipe is called only after
\* a recipe was composed in the same interaction.
C2_EmptyInputRejected ==
    /\ engine_called => Len(ingredients_list) >= 1
    /\ (HandlerRan /\ input_mode = "Type Ingredients"
          /\ OnlySeparators(ingredients_text))
         => (~engine_called /\ recipe_markdown = NoMarkdown)
    /\ (HandlerRan /\ input_mode = "Upload Food Photo" /\ ~uploaded_file)
         => (~engine_called /\ recipe_markdown = NoMarkdown)
    /\ pdf_created => (engine_called /\ recipe_markdown # NoMarkdown)

ImageSubmitted ==
    HandlerRan /\ input_mode = "Upload Food Photo" /\ clicked /\ uploaded_file

\* C3: without a credential the vision stage returns exactly
\* ("Unknown Dish (no API key)", the four fallback ingredients) and the
\* service is not called; when the service call raises, it returns an
\* error-labeled dish name with the same four ingredients, no exception
\* leaves it, and generate_recipe still runs.
C3_VisionFallback ==
    ImageSubmitted =>
        /\ ~analysis.raised
        /\ engine_called
        /\ ingredients_list = analysis.ingredients
        /\ recipe_markdown # NoMarkdown
        /\ ~GOOGLE_API_KEY =>
             /\ analysis.dish_name = "Unknown Dish (no API key)"
             /\ analysis.ingredients = <<"onion", "tomato", "oil", "salt">>
             /\ ~analysis.called
        /\ (GOOGLE_API_KEY /\ svc.kind = "InvalidArgument") =>
             /\ analysis.dish_name = "Gemini Error: " \o svc.message
             /\ analysis.ingredients = <<"onion", "tomato", "oil", "salt">>
        /\ (GOOGLE_API_KEY /\ svc.kind = "Exception") =>
             /\ analysis.dish_name = "Unknown Dish (error)"
             /\ analysis.ingredients = <<"onion", "tomato", "oil", "salt">>

C3_Witness ==
    /\ upc = "idle" /\ ImageSubmitted /\ GOOGLE_API_KEY
    /\ svc.kind = "Exception" /\ analysis.called
    /\ engine_called /\ pdf_created
    /\ recipe_title = "Thai Unknown Dish (error)"

(***************************************************************************)
(* Claims about pagination (SpecPdf)                                       *)
(***************************************************************************)
\* (page height - top and bottom margins) / line height, rounded down
Capacity == (PAGE_HEIGHT - TOP_OFFSET - BOTTOM_MARGIN) \div LEADING

\* the latest part drawn of a long line is the next run of at most 90
\* characters, of exactly 90 unless it is the last
ChunksConsecutive ==
    (fpc = "chunks" /\ f_off > 0) =>
        LET k == (f_off + WRAP - 1) \div WRAP
        IN  /\ f_off = Min(k * WRAP, Len(f_line))
            /\ f_drawn = SubSeq(f_line, (k - 1) * WRAP + 1, f_off)
            /\ f_off < Len(f_line) => Len(f_drawn) = WRAP

\* C4 as stated: long lines are drawn as consecutive 90-character chunks, a
\* new page starts once the cursor is below the bottom margin, and no page
\* holds more lines than (page height - margins) / line height.
C4_PageCapacity ==
    fpc # "off" =>
        /\ ChunksConsecutive
        /\ f_y >= BOTTOM_MARGIN
        /\ f_on_page <= Capacity
        /\ f_shown <= Capacity

\* C4 amended: long lines are drawn as consecutive chunks of 90 characters
\* (the last one possibly shorter), a new page starts once the cursor is
\* below the bottom margin, and no page holds more lines than
\* (page height - margins) / line height plus one: the line that takes the
\* cursor below the margin is still drawn on the page it ends.
C4_PageCapacityPlusOne ==
    fpc # "off" =>
        /\ ChunksConsecutive
        /\ f_y >= BOTTOM_MARGIN
        /\ f_y = TopY - LEADING * f_on_page
        /\ f_on_page <= Capacity
        /\ f_shown <= Capacity + 1
        /\ (f_shown # -1 /\ fpc # "done") => f_shown = Capacity + 1

C4_Witness ==
    /\ fpc = "chunks" /\ f_off = WRAP /\ f_off < Len(f_line)
    /\ f_shown = Capacity + 1 /\ f_on_page = 0 /\ f_pages = 1

\* C10: every page shown, the final one included, holds at least one drawn
\* line.
C10_NoBlankPage == f_shown # -1 => f_shown >= 1

=============================================================================
